---- MODULE Spec2Model ----
(***************************************************************************)
(* ER patient-flow forecasting engine (src/predictive_analytics.py,        *)
(* class ERPredictiveAnalytics) over a Historical Store shaped like the    *)
(* output of src/data_generator.py.                                        *)
(*                                                                         *)
(* Numbers.  The code computes in float64.  Here a float is an integer     *)
(* number of 1/Scale units (fixed point, divisions round towards minus     *)
(* infinity), or the value NaN.  NaN is produced where pandas produces it  *)
(* (mean of nothing, sample standard deviation of fewer than two values)   *)
(* and propagates as IEEE-754 says: arithmetic on NaN is NaN, every        *)
(* ordered comparison with NaN is false, Python's max(0, NaN) is 0.        *)
(***************************************************************************)
EXTENDS Integers, Sequences, FiniteSets, TLC

VARIABLES
  historical_data,  \* self.historical_data: the sequence of the store's records
  departments,      \* self.departments
  forecast_cache,   \* self.forecast_cache
  call,             \* the method running or just returned, with its arguments
  result,           \* what it returned
  raised,           \* the exception it ended with, "None" when it returned
  simulation_state, \* dashboard.py's module global simulation_state
  CAPACITY_CONFIG_current,
                    \* dashboard.py's module global CAPACITY_CONFIG, as the
                    \* callbacks have left it
  layout,           \* the properties of app.layout's components the main
                    \* callback reads: the round input's value, the resource
                    \* table's data, the simulate button's n_clicks
  observed          \* what the dashboard's user has done so far (history
                    \* variable, read by no action's effect on the program)

vars == <<historical_data, departments, forecast_cache, call, result, raised,
          simulation_state, CAPACITY_CONFIG_current, layout, observed>>

Dashboard == <<simulation_state, CAPACITY_CONFIG_current, layout, observed>>

-----------------------------------------------------------------------------
(* Bounds of the model *)

\* largest count a department records in one round
MaxCount == 2
\* current_round arguments range over 0..MaxQueryRound
MaxQueryRound == 5
\* window arguments range over 1..MaxWindow
MaxWindow == 3
\* n arguments of forecast_next_n_rounds range over 0..MaxHorizon
MaxHorizon == 4
\* patients-per-nurse and patients-per-doctor ratios range over 1..MaxRatio
MaxRatio == 2
\* rounds past the history are queried up to the store's last round plus the
\* trend lookback plus MaxBeyond
MaxBeyond == 2
\* the dashboard's user clicks 'Simulate Next Round' at most MaxSimulate times
MaxSimulate == 3
\* and edits at most MaxEdits cells of the resource table, typing 1..MaxEdit
MaxEdits == 1
MaxEdit == 1
\* a batch of arrivals brings 0..MaxArrival patients to each department
MaxArrival == 1

\* session lengths of the stores explored: one entry per session, each session
\* holding rounds 1..n (src/data_generator.py:82, 104)
SessionShapes ==
  { <<1>>, <<2>>, <<3>>, <<1, 1>>, <<2, 1>>, <<3, 1>> }

-----------------------------------------------------------------------------
(* Program constants *)

DefaultWindow == 3
DefaultLookback == 5
DefaultThresholdPercentile == 75
HighPercentile == 90
DefaultPatientsPerNurse == 4
DefaultPatientsPerDoctor == 6

DeptList ==
  << "emergency_walkin", "emergency_ambulance", "surgery", "critical_care",
     "step_down" >>

Departments == { DeptList[i] : i \in 1..Len(DeptList) }

DeptIndex(dept) == CHOOSE i \in 1..Len(DeptList) : DeptList[i] = dept

-----------------------------------------------------------------------------
(* float64 as fixed point *)

Scale == 10 * 10 * 10

NaN == 0 - (Scale * Scale * Scale)

IsNaN(x) == x = NaN

FAdd(a, b) == IF IsNaN(a) \/ IsNaN(b) THEN NaN ELSE a + b

FSub(a, b) == IF IsNaN(a) \/ IsNaN(b) THEN NaN ELSE a - b

\* a * num / den for integer literals num, den (0.3 is 3/10, 0.4 is 4/10)
FScale(a, num, den) == IF IsNaN(a) THEN NaN ELSE (a * num) \div den

\* a > b and a >= b on floats: false when either side is NaN
FGt(a, b) == ~IsNaN(a) /\ ~IsNaN(b) /\ a > b

FGe(a, b) == ~IsNaN(a) /\ ~IsNaN(b) /\ a >= b

\* max(0, x) left out
PyMax0_NoFloor(x) == x

\* Python's max(0, x): x only replaces 0 when x > 0 is true
PyMax0(x) == IF FGt(x, 0) THEN x ELSE 0

\* round(x, 1): to the nearest tenth, ties to the even tenth; NaN stays NaN
Round1(x) ==
  IF IsNaN(x) THEN NaN
  ELSE LET step == Scale \div 10
           q == x \div step
           r == x % step
       IN  IF 2 * r < step THEN q * step
           ELSE IF 2 * r > step THEN (q + 1) * step
           ELSE IF q % 2 = 0 THEN q * step ELSE (q + 1) * step

RECURSIVE ISqrtIn(_, _, _)
ISqrtIn(x, lo, hi) ==
  IF lo >= hi THEN lo
  ELSE LET mid == (lo + hi + 1) \div 2
       IN  IF mid * mid <= x THEN ISqrtIn(x, mid, hi) ELSE ISqrtIn(x, lo, mid - 1)

\* floor of the square root of x >= 0
ISqrt(x) == ISqrtIn(x, 0, 40000)

RECURSIVE SumSeq(_)
SumSeq(s) == IF s = <<>> THEN 0 ELSE Head(s) + SumSeq(Tail(s))

SumSq(s) == SumSeq([i \in 1..Len(s) |-> s[i] * s[i]])

\* pandas Series.mean() of integer counts: NaN for an empty series
Mean(s) == IF Len(s) = 0 THEN NaN ELSE (SumSeq(s) * Scale) \div Len(s)

\* pandas Series.std() (ddof = 1): NaN for fewer than two values
Std(s) ==
  IF Len(s) < 2 THEN NaN
  ELSE LET n == Len(s)
           ss == n * SumSq(s) - SumSeq(s) * SumSeq(s)
       IN  ISqrt((ss * Scale * Scale) \div (n * (n - 1)))

-----------------------------------------------------------------------------
(* The Historical Store *)

RECURSIVE ShapeRows(_, _)
\* the (session_id, round) pairs of a store, session after session
ShapeRows(shape, sid) ==
  IF shape = <<>> THEN <<>>
  ELSE [r \in 1..Head(shape) |-> [session_id |-> sid, round |-> r]]
         \o ShapeRows(Tail(shape), sid + 1)

\* one record: session_id, round and a count per department.  The stores
\* explored give department number i the counts of a base column shifted by
\* i - 1 (mod MaxCount + 1), so every department ranges over every column.
MakeRecord(key, base) ==
  [f \in {"session_id", "round"} \cup Departments |->
     IF f = "session_id" THEN key.session_id
     ELSE IF f = "round" THEN key.round
     ELSE (base + DeptIndex(f) - 1) % (MaxCount + 1)]

StoresOfShape(shape) ==
  LET keys == ShapeRows(shape, 0)
  IN  { [i \in 1..Len(keys) |-> MakeRecord(keys[i], col[i])] :
          col \in [1..Len(keys) -> 0..MaxCount] }

Stores == UNION { StoresOfShape(shape) : shape \in SessionShapes }

\* historical_data[dept]
Column(rows, dept) == [i \in 1..Len(rows) |-> rows[i][dept]]

\* historical_data[(round >= lo) & (round < hi)]
RowsBetween(lo, hi) ==
  SelectSeq(historical_data, LAMBDA rec : rec.round >= lo /\ rec.round < hi)

\* historical_data[round == r]
RowsAt(r) == SelectSeq(historical_data, LAMBDA rec : rec.round = r)

Max2(a, b) == IF a >= b THEN a ELSE b

-----------------------------------------------------------------------------
(* ERPredictiveAnalytics *)

\* the first-round fallback averaging the first round instead of the history
moving_average_forecast_FirstRound(dept, current_round, window) ==
  IF current_round <= 1 THEN Mean(Column(RowsAt(1), dept))
  ELSE LET recent_data ==
             Column(RowsBetween(Max2(1, current_round - window), current_round),
                    dept)
       IN  IF Len(recent_data) = 0 THEN Mean(Column(historical_data, dept))
           ELSE Mean(recent_data)

\* the window closed on the right: round <= current_round
moving_average_forecast_Inclusive(dept, current_round, window) ==
  IF current_round <= 1 THEN Mean(Column(historical_data, dept))
  ELSE LET recent_data ==
             Column(RowsBetween(Max2(1, current_round - window),
                                current_round + 1), dept)
       IN  IF Len(recent_data) = 0 THEN Mean(Column(historical_data, dept))
           ELSE Mean(recent_data)

\* an empty window read as no arrivals, in place of the full-history mean
moving_average_forecast_ZeroWhenEmpty(dept, current_round, window) ==
  IF current_round <= 1 THEN Mean(Column(historical_data, dept))
  ELSE LET recent_data ==
             Column(RowsBetween(Max2(1, current_round - window), current_round),
                    dept)
       IN  IF Len(recent_data) = 0 THEN 0
           ELSE Mean(recent_data)

moving_average_forecast(dept, current_round, window) ==
  IF current_round <= 1 THEN Mean(Column(historical_data, dept))
  ELSE LET recent_data ==
             Column(RowsBetween(Max2(1, current_round - window), current_round),
                    dept)
       IN  IF Len(recent_data) = 0 THEN Mean(Column(historical_data, dept))
           ELSE Mean(recent_data)

\* isinstance(x, dict): every dict these methods build or read carries the
\* key 'forecast'; a bare float is held boxed, as Scalar(v)
Scalar(v) == [value |-> v]

IsDict(x) == "forecast" \in DOMAIN x

\* the scalar returned for a single observation as well: len(round_data) <= 1
time_based_forecast_ScalarWhenSingle(dept, current_round) ==
  LET round_data == Column(RowsAt(current_round), dept)
  IN  IF Len(round_data) <= 1 THEN Scalar(Mean(Column(historical_data, dept)))
      ELSE LET mean_forecast == Mean(round_data)
               std_forecast == Std(round_data)
           IN  [forecast |-> mean_forecast,
                lower_bound |-> PyMax0(FSub(mean_forecast, std_forecast)),
                upper_bound |-> FAdd(mean_forecast, std_forecast),
                confidence |-> (68 * Scale) \div 100]

time_based_forecast(dept, current_round) ==
  LET round_data == Column(RowsAt(current_round), dept)
  IN  IF Len(round_data) = 0 THEN Scalar(Mean(Column(historical_data, dept)))
      ELSE LET mean_forecast == Mean(round_data)
               std_forecast == IF Len(round_data) > 1 THEN Std(round_data)
                               ELSE FScale(mean_forecast, 3, 10)
           IN  [forecast |-> mean_forecast,
                lower_bound |-> PyMax0(FSub(mean_forecast, std_forecast)),
                upper_bound |-> FAdd(mean_forecast, std_forecast),
                confidence |-> (68 * Scale) \div 100]

RECURSIVE SumOver(_, _)
SumOver(S, f) ==
  IF S = {} THEN 0
  ELSE LET x == CHOOSE x \in S : TRUE IN f[x] + SumOver(S \ {x}, f)

\* stats.linregress(x, y) evaluated at at: slope * at + intercept, for the
\* points (x, y[x]), x in xs, with at least two distinct x
RegressionAt(xs, y, at) ==
  LET n == Cardinality(xs)
      sx == SumOver(xs, [x \in xs |-> x])
      sy == SumOver(xs, y)
      sxx == SumOver(xs, [x \in xs |-> x * x])
      sxy == SumOver(xs, [x \in xs |-> x * y[x]])
      ssxx == n * sxx - sx * sx
      ssxy == n * sxy - sx * sy
  IN  (sy * ssxx + ssxy * (n * at - sx)) \div (n * ssxx)

\* the regression line returned as it is, without max(0, forecast)
trend_forecast_NoFloor(dept, current_round, lookback) ==
  IF current_round <= 2
  THEN moving_average_forecast(dept, current_round, DefaultWindow)
  ELSE LET rows == RowsBetween(Max2(1, current_round - lookback), current_round)
           rounds == { rows[i].round : i \in 1..Len(rows) }
           recent_rounds ==
             [r \in rounds |->
                Mean(Column(SelectSeq(rows, LAMBDA rec : rec.round = r), dept))]
       IN  IF Cardinality(rounds) < 2
           THEN moving_average_forecast(dept, current_round, DefaultWindow)
           ELSE RegressionAt(rounds, recent_rounds, current_round)

trend_forecast(dept, current_round, lookback) ==
  IF current_round <= 2
  THEN moving_average_forecast(dept, current_round, DefaultWindow)
  ELSE LET rows == RowsBetween(Max2(1, current_round - lookback), current_round)
           rounds == { rows[i].round : i \in 1..Len(rows) }
           recent_rounds ==
             [r \in rounds |->
                Mean(Column(SelectSeq(rows, LAMBDA rec : rec.round = r), dept))]
       IN  IF Cardinality(rounds) < 2
           THEN moving_average_forecast(dept, current_round, DefaultWindow)
           ELSE PyMax0(RegressionAt(rounds, recent_rounds, current_round))

\* the point forecast recomputed from the rounded per-method values
ensemble_forecast_FromRounded(dept, current_round) ==
  LET ma_forecast == moving_average_forecast(dept, current_round, 3)
      time_forecast == time_based_forecast(dept, current_round)
      trend == trend_forecast(dept, current_round, 5)
      time_value == IF IsDict(time_forecast) THEN time_forecast.forecast
                    ELSE time_forecast.value
      forecast == FAdd(FAdd(FScale(Round1(time_value), 4, 10),
                            FScale(Round1(ma_forecast), 3, 10)),
                       FScale(Round1(trend), 3, 10))
      std == Std(Column(historical_data, dept))
      lower == IF IsDict(time_forecast) THEN time_forecast.lower_bound
               ELSE PyMax0(FSub(forecast, std))
      upper == IF IsDict(time_forecast) THEN time_forecast.upper_bound
               ELSE FAdd(forecast, std)
  IN  [forecast |-> Round1(forecast),
       lower_bound |-> Round1(lower),
       upper_bound |-> Round1(upper),
       methods |-> [moving_average |-> Round1(ma_forecast),
                    time_based |-> Round1(time_value),
                    trend |-> Round1(trend)]]

\* the scalar-branch bounds taken around the rounded point forecast
ensemble_forecast_BoundsFromRounded(dept, current_round) ==
  LET ma_forecast == moving_average_forecast(dept, current_round, 3)
      time_forecast == time_based_forecast(dept, current_round)
      trend == trend_forecast(dept, current_round, 5)
      time_value == IF IsDict(time_forecast) THEN time_forecast.forecast
                    ELSE time_forecast.value
      forecast == FAdd(FAdd(FScale(time_value, 4, 10), FScale(ma_forecast, 3, 10)),
                       FScale(trend, 3, 10))
      std == Std(Column(historical_data, dept))
      lower == IF IsDict(time_forecast) THEN time_forecast.lower_bound
               ELSE PyMax0(FSub(Round1(forecast), std))
      upper == IF IsDict(time_forecast) THEN time_forecast.upper_bound
               ELSE FAdd(Round1(forecast), std)
  IN  [forecast |-> Round1(forecast),
       lower_bound |-> Round1(lower),
       upper_bound |-> Round1(upper),
       methods |-> [moving_average |-> Round1(ma_forecast),
                    time_based |-> Round1(time_value),
                    trend |-> Round1(trend)]]

\* the scalar-branch deviation taken over the whole table, every department's
\* counts together, instead of the department's column
ensemble_forecast_TableStd(dept, current_round) ==
  LET ma_forecast == moving_average_forecast(dept, current_round, 3)
      time_forecast == time_based_forecast(dept, current_round)
      trend == trend_forecast(dept, current_round, 5)
      time_value == IF IsDict(time_forecast) THEN time_forecast.forecast
                    ELSE time_forecast.value
      forecast == FAdd(FAdd(FScale(time_value, 4, 10), FScale(ma_forecast, 3, 10)),
                       FScale(trend, 3, 10))
      std == Std([i \in 1..(Len(historical_data) * Len(DeptList)) |->
                    historical_data[((i - 1) \div Len(DeptList)) + 1]
                                   [DeptList[((i - 1) % Len(DeptList)) + 1]]])
      lower == IF IsDict(time_forecast) THEN time_forecast.lower_bound
               ELSE PyMax0(FSub(forecast, std))
      upper == IF IsDict(time_forecast) THEN time_forecast.upper_bound
               ELSE FAdd(forecast, std)
  IN  [forecast |-> Round1(forecast),
       lower_bound |-> Round1(lower),
       upper_bound |-> Round1(upper),
       methods |-> [moving_average |-> Round1(ma_forecast),
                    time_based |-> Round1(time_value),
                    trend |-> Round1(trend)]]

ensemble_forecast(dept, current_round) ==
  LET ma_forecast == moving_average_forecast(dept, current_round, 3)
      time_forecast == time_based_forecast(dept, current_round)
      trend == trend_forecast(dept, current_round, 5)
      time_value == IF IsDict(time_forecast) THEN time_forecast.forecast
                    ELSE time_forecast.value
      forecast == FAdd(FAdd(FScale(time_value, 4, 10), FScale(ma_forecast, 3, 10)),
                       FScale(trend, 3, 10))
      std == Std(Column(historical_data, dept))
      lower == IF IsDict(time_forecast) THEN time_forecast.lower_bound
               ELSE PyMax0(FSub(forecast, std))
      upper == IF IsDict(time_forecast) THEN time_forecast.upper_bound
               ELSE FAdd(forecast, std)
  IN  [forecast |-> Round1(forecast),
       lower_bound |-> Round1(lower),
       upper_bound |-> Round1(upper),
       methods |-> [moving_average |-> Round1(ma_forecast),
                    time_based |-> Round1(time_value),
                    trend |-> Round1(trend)]]

-----------------------------------------------------------------------------
(* The engine after __init__, and one action per method *)

\* Python dicts keep insertion order: a dict is the sequence of its entries
Entry(k, v) == [key |-> k, value |-> v]

DictKeys(d) == [i \in 1..Len(d) |-> d[i].key]

KeySet(d) == { d[i].key : i \in 1..Len(d) }

DictGet(d, k) == d[CHOOSE i \in 1..Len(d) : d[i].key = k].value

forecast_all_departments(current_round) ==
  [i \in 1..Len(departments) |->
     Entry(departments[i], ensemble_forecast(departments[i], current_round))]

RECURSIVE HorizonLoop(_, _, _)
\* the loop over range(future_round, stop), appending to forecast_horizon
HorizonLoop(future_round, stop, forecast_horizon) ==
  IF future_round >= stop THEN forecast_horizon
  ELSE HorizonLoop(future_round + 1, stop,
         Append(forecast_horizon,
                Entry(future_round, forecast_all_departments(future_round))))

\* range(current_round, current_round + n + 1): one round too many
forecast_next_n_rounds_Inclusive(current_round, n) ==
  HorizonLoop(current_round, current_round + n + 1, <<>>)

forecast_next_n_rounds(current_round, n) ==
  HorizonLoop(current_round, current_round + n, <<>>)

\* np.percentile(data, q), linear interpolation between the two nearest ranks
Percentile(data, q) ==
  LET sorted == SortSeq(data, LAMBDA a, b : a < b)
      n == Len(sorted)
      pos == q * (n - 1)
      previous == pos \div 100
      gamma == pos % 100
      lo == sorted[previous + 1]
      hi == sorted[IF previous + 2 <= n THEN previous + 2 ELSE n]
  IN  ((lo * 100 + gamma * (hi - lo)) * Scale) \div 100

\* forecast['forecast'] if isinstance(forecast, dict) else forecast
ForecastValue(forecast) == IF IsDict(forecast) THEN forecast.forecast ELSE forecast.value

\* the threshold test written >= instead of >
SurgeAlerts_AtThreshold(dept, forecast, threshold_percentile) ==
  LET hist_data == Column(historical_data, dept)
      threshold == Percentile(hist_data, threshold_percentile)
      forecast_value == ForecastValue(forecast)
  IN  IF FGe(forecast_value, threshold)
      THEN << [department |-> dept,
               forecast |-> forecast_value,
               threshold |-> threshold,
               severity |-> IF FGt(forecast_value,
                                   Percentile(hist_data, HighPercentile))
                            THEN "HIGH" ELSE "MODERATE",
               message |-> <<dept, Round1(forecast_value), Round1(threshold)>>] >>
      ELSE <<>>

\* the severity test made against the alert threshold instead of the 90th
\* percentile
SurgeAlerts_SeverityByThreshold(dept, forecast, threshold_percentile) ==
  LET hist_data == Column(historical_data, dept)
      threshold == Percentile(hist_data, threshold_percentile)
      forecast_value == ForecastValue(forecast)
  IN  IF FGt(forecast_value, threshold)
      THEN << [department |-> dept,
               forecast |-> forecast_value,
               threshold |-> threshold,
               severity |-> IF FGt(forecast_value, threshold)
                            THEN "HIGH" ELSE "MODERATE",
               message |-> <<dept, Round1(forecast_value), Round1(threshold)>>] >>
      ELSE <<>>

\* one pass of detect_surge's loop body: the alerts it appends for (dept, forecast)
SurgeAlerts(dept, forecast, threshold_percentile) ==
  LET hist_data == Column(historical_data, dept)
      threshold == Percentile(hist_data, threshold_percentile)
      forecast_value == ForecastValue(forecast)
  IN  IF FGt(forecast_value, threshold)
      THEN << [department |-> dept,
               forecast |-> forecast_value,
               threshold |-> threshold,
               severity |-> IF FGt(forecast_value,
                                   Percentile(hist_data, HighPercentile))
                            THEN "HIGH" ELSE "MODERATE",
               message |-> <<dept, Round1(forecast_value), Round1(threshold)>>] >>
      ELSE <<>>

RECURSIVE SurgeLoop(_, _, _)
\* for dept, forecast in forecast_data.items(): ... alerts.append(...)
SurgeLoop(items, threshold_percentile, alerts) ==
  IF items = <<>> THEN alerts
  ELSE SurgeLoop(Tail(items), threshold_percentile,
         alerts \o SurgeAlerts(Head(items).key, Head(items).value,
                               threshold_percentile))

\* the loop run over self.departments instead of forecast_data.items()
detect_surge_ByDepartments(forecast_data, threshold_percentile) ==
  SurgeLoop(SelectSeq([i \in 1..Len(departments) |->
                         IF \E j \in 1..Len(forecast_data) :
                              forecast_data[j].key = departments[i]
                         THEN Entry(departments[i],
                                    DictGet(forecast_data, departments[i]))
                         ELSE Entry("", Scalar(0))],
                      LAMBDA e : e.key # ""),
            threshold_percentile, <<>>)

detect_surge(forecast_data, threshold_percentile) ==
  SurgeLoop(forecast_data, threshold_percentile, <<>>)

\* config.get(key, default)
ConfigGet(config, key, default) ==
  IF key \in DOMAIN config THEN config[key] ELSE default

\* int(value / ratio), np.ceil left out
CeilDiv_Truncated(value, ratio) == value \div (ratio * Scale)

\* np.ceil(value / ratio) for a float value and a ratio >= 1
CeilDiv(value, ratio) == 0 - ((0 - value) \div (ratio * Scale))

\* config = capacity_config.get(dept, {}) in place of the skip
Recommendation_NoSkip(dept, forecast, capacity_config) ==
  LET config == IF dept \in DOMAIN capacity_config THEN capacity_config[dept]
                ELSE <<>>
      forecast_value == ForecastValue(forecast)
  IN  << Entry(dept,
               [expected_patients |-> forecast_value,
                nurses_recommended |->
                  CeilDiv(forecast_value,
                          ConfigGet(config, "patients_per_nurse",
                                    DefaultPatientsPerNurse)),
                doctors_recommended |->
                  CeilDiv(forecast_value,
                          ConfigGet(config, "patients_per_doctor",
                                    DefaultPatientsPerDoctor))]) >>

\* one pass of calculate_capacity_recommendations' loop body: the entries it
\* adds to recommendations for (dept, forecast)
Recommendation(dept, forecast, capacity_config) ==
  IF dept \notin DOMAIN capacity_config THEN <<>>
  ELSE LET config == capacity_config[dept]
           forecast_value == ForecastValue(forecast)
           nurses_needed ==
             CeilDiv(forecast_value,
                     ConfigGet(config, "patients_per_nurse", DefaultPatientsPerNurse))
           doctors_needed ==
             CeilDiv(forecast_value,
                     ConfigGet(config, "patients_per_doctor", DefaultPatientsPerDoctor))
       IN  << Entry(dept, [expected_patients |-> forecast_value,
                           nurses_recommended |-> nurses_needed,
                           doctors_recommended |-> doctors_needed]) >>

RECURSIVE RecommendLoop(_, _, _)
\* for dept, forecast in forecasts.items(): ... recommendations[dept] = {...}
RecommendLoop(items, capacity_config, recommendations) ==
  IF items = <<>> THEN recommendations
  ELSE RecommendLoop(Tail(items), capacity_config,
         recommendations
           \o Recommendation(Head(items).key, Head(items).value,
                             capacity_config))

calculate_capacity_recommendations(forecasts, capacity_config) ==
  RecommendLoop(forecasts, capacity_config, <<>>)

\* int(np.ceil(NaN)) raises ValueError: the exception the call ends with
CapacityRaises(forecasts, capacity_config) ==
  IF \E i \in 1..Len(forecasts) :
       /\ forecasts[i].key \in DOMAIN capacity_config
       /\ IsNaN(ForecastValue(forecasts[i].value))
  THEN "ValueError" ELSE "None"

QueryRounds == 0..MaxQueryRound

Windows == 1..MaxWindow

Lookbacks == {1, 2, DefaultLookback}

Horizons == 0..MaxHorizon

DEPT_NAMES ==
  [dept \in Departments |->
     CASE dept = "emergency_walkin" -> "Emergency Walk-in"
       [] dept = "emergency_ambulance" -> "Emergency Ambulance"
       [] dept = "surgery" -> "Surgical Care"
       [] dept = "critical_care" -> "Critical Care"
       [] dept = "step_down" -> "Step Down"]

\* src/dashboard.py:43-49
CAPACITY_CONFIG ==
  [dept \in Departments |->
     [patients_per_staff |->
        CASE dept = "emergency_walkin" -> 4
          [] dept = "emergency_ambulance" -> 3
          [] dept = "surgery" -> 2
          [] dept = "critical_care" -> 2
          [] dept = "step_down" -> 5,
      beds |->
        CASE dept = "emergency_walkin" -> 15
          [] dept = "emergency_ambulance" -> 10
          [] dept = "surgery" -> 8
          [] dept = "critical_care" -> 6
          [] dept = "step_down" -> 12]]

\* the staff counts simulation_state starts with, which the reset branch of
\* the main callback writes again
DefaultStaffAllocation ==
  [dept \in Departments |->
     [staff |-> IF dept = "emergency_walkin" THEN 5 ELSE 3]]

\* nothing done yet: no run of simulate callbacks, no table cell edited
NothingObserved ==
  [k |-> 0, r |-> 0, batches |-> 0, edits |-> 0,
   before |-> [dept \in Departments |-> 0]]

\* dashboard.py as imported and laid out, before the first callback
DashboardImported ==
  /\ simulation_state =
       [current_round |-> 1,
        current_patients |-> [dept \in Departments |-> 0],
        wait_times |-> [dept \in Departments |-> 0],
        total_treated |-> 0,
        staff_allocation |-> DefaultStaffAllocation]
  /\ CAPACITY_CONFIG_current = CAPACITY_CONFIG
  /\ layout = [current_round_input |-> 1, resource_table |-> <<>>,
               simulate_btn |-> 0]
  /\ observed = NothingObserved

Init ==
  /\ historical_data \in Stores
  /\ departments = DeptList
  /\ forecast_cache = <<>>
  /\ call = [op |-> "__init__"]
  /\ result = "None"
  /\ raised = "None"
  /\ DashboardImported

Engine == <<historical_data, departments, forecast_cache>>

\* no method runs: the engine waits for the presentation layer's next call
Idle == call.op \in {"__init__", "idle"}

MovingAverageForecast ==
  /\ Idle
  /\ \E dept \in Departments, current_round \in QueryRounds, window \in Windows :
    /\ call' = [op |-> "moving_average_forecast", dept |-> dept,
                current_round |-> current_round, window |-> window]
    /\ result' = moving_average_forecast(dept, current_round, window)
    /\ raised' = "None"
    /\ UNCHANGED <<Engine, Dashboard>>

TimeBasedForecast ==
  /\ Idle
  /\ \E dept \in Departments, current_round \in QueryRounds :
    /\ call' = [op |-> "time_based_forecast", dept |-> dept,
                current_round |-> current_round]
    /\ result' = time_based_forecast(dept, current_round)
    /\ raised' = "None"
    /\ UNCHANGED <<Engine, Dashboard>>

TrendForecast ==
  /\ Idle
  /\ \E dept \in Departments, current_round \in QueryRounds, lookback \in Lookbacks :
    /\ call' = [op |-> "trend_forecast", dept |-> dept,
                current_round |-> current_round, lookback |-> lookback]
    /\ result' = trend_forecast(dept, current_round, lookback)
    /\ raised' = "None"
    /\ UNCHANGED <<Engine, Dashboard>>

EnsembleForecast ==
  /\ Idle
  /\ \E dept \in Departments, current_round \in QueryRounds :
    /\ call' = [op |-> "ensemble_forecast", dept |-> dept,
                current_round |-> current_round]
    /\ result' = ensemble_forecast(dept, current_round)
    /\ raised' = "None"
    /\ UNCHANGED <<Engine, Dashboard>>

ForecastAllDepartments ==
  /\ Idle
  /\ \E current_round \in QueryRounds :
    /\ call' = [op |-> "forecast_all_departments",
                current_round |-> current_round]
    /\ result' = forecast_all_departments(current_round)
    /\ raised' = "None"
    /\ UNCHANGED <<Engine, Dashboard>>

ForecastNextNRounds ==
  /\ Idle
  /\ \E current_round \in QueryRounds, n \in Horizons :
    /\ call' = [op |-> "forecast_next_n_rounds",
                current_round |-> current_round, n |-> n]
    /\ result' = forecast_next_n_rounds(current_round, n)
    /\ raised' = "None"
    /\ UNCHANGED <<Engine, Dashboard>>

\* the forecast maps handed to detect_surge and to
\* calculate_capacity_recommendations: the entries of a map the engine built
\* (src/dashboard.py:372-374), taken in the order keys, whole or as the bare
\* 'forecast' floats
PickEntries(forecasts, keys, bare) ==
  [i \in 1..Len(keys) |->
     Entry(keys[i],
           IF bare THEN Scalar(DictGet(forecasts, keys[i]).forecast)
           ELSE DictGet(forecasts, keys[i]))]

Reverse(s) == [i \in 1..Len(s) |-> s[Len(s) + 1 - i]]

KeyOrders ==
  { DeptList, Reverse(DeptList), <<>>, <<"surgery">>,
    <<"step_down", "emergency_walkin">> }

ForecastMaps ==
  { PickEntries(forecast_all_departments(current_round), keys, bare) :
      current_round \in QueryRounds, keys \in KeyOrders, bare \in BOOLEAN }

ThresholdPercentiles == {50, DefaultThresholdPercentile, 95}

\* the capacity configurations passed in: the dashboard's, the docstring's
\* example (src/predictive_analytics.py:205), nurse and doctor ratios for all
\* or some departments, a nurse ratio alone, and no department at all
CapacityConfigs ==
  {CAPACITY_CONFIG}
    \cup { [dept \in {"emergency_walkin"} |->
             [patients_per_nurse |-> 4, patients_per_doctor |-> 6]] }
    \cup { [dept \in D |-> [patients_per_nurse |-> n, patients_per_doctor |-> d]] :
             D \in {Departments, {"surgery", "step_down"}},
             n \in 1..MaxRatio, d \in 1..MaxRatio }
    \cup { [dept \in Departments |-> [patients_per_nurse |-> n]] :
             n \in 1..MaxRatio }
    \cup { [dept \in {} |-> <<>>] }

DetectSurge ==
  /\ Idle
  /\ \E forecast_data \in ForecastMaps,
     threshold_percentile \in ThresholdPercentiles :
    /\ call' = [op |-> "detect_surge", forecast_data |-> forecast_data,
                threshold_percentile |-> threshold_percentile]
    /\ result' = detect_surge(forecast_data, threshold_percentile)
    /\ raised' = "None"
    /\ UNCHANGED <<Engine, Dashboard>>

CalculateCapacityRecommendations ==
  /\ Idle
  /\ \E forecasts \in ForecastMaps, capacity_config \in CapacityConfigs :
    /\ call' = [op |-> "calculate_capacity_recommendations",
                forecasts |-> forecasts, capacity_config |-> capacity_config]
    /\ raised' = CapacityRaises(forecasts, capacity_config)
    /\ result' = IF raised' = "None"
                 THEN calculate_capacity_recommendations(forecasts, capacity_config)
                 ELSE "None"
    /\ UNCHANGED <<Engine, Dashboard>>

\* the method has returned and the caller has taken its result
Return ==
  /\ ~Idle
  /\ call' = [op |-> "idle"]
  /\ result' = "None"
  /\ raised' = "None"
  /\ UNCHANGED <<Engine, Dashboard>>

\* the forecasting and surge methods, which read the store
Next ==
  \/ MovingAverageForecast
  \/ TimeBasedForecast
  \/ TrendForecast
  \/ EnsembleForecast
  \/ ForecastAllDepartments
  \/ ForecastNextNRounds
  \/ DetectSurge
  \/ Return

Spec == Init /\ [][Next]_vars

\* calculate_capacity_recommendations reads no column of the store: it is
\* explored over the stores of one or two records
InitCapacity == Init /\ Len(historical_data) <= 2

NextCapacity ==
  \/ CalculateCapacityRecommendations
  \/ Return

SpecCapacity == InitCapacity /\ [][NextCapacity]_vars

-----------------------------------------------------------------------------
(* Requests: the engine called statement by statement                       *)
(*                                                                          *)
(* In SpecSequential and SpecConcurrent `call` holds one record per request *)
(* of the host (spec section 5): the method it is in, the statement it is   *)
(* at and its local variables; `result` holds what each request's method    *)
(* returned.  A step runs one statement of the called method's body, the    *)
(* calls that statement makes included; a loop runs one iteration a step.   *)

Requests == {"request_a", "request_b"}

RequestDepts == {"emergency_walkin", "surgery"}

RequestRounds == {1, 3}

\* lines 119-143 of ensemble_forecast, from its three local forecasts
EnsembleResult(dept, ma_forecast, time_forecast, trend) ==
  LET time_value == IF IsDict(time_forecast) THEN time_forecast.forecast
                    ELSE time_forecast.value
      forecast == FAdd(FAdd(FScale(time_value, 4, 10), FScale(ma_forecast, 3, 10)),
                       FScale(trend, 3, 10))
      std == Std(Column(historical_data, dept))
      lower == IF IsDict(time_forecast) THEN time_forecast.lower_bound
               ELSE PyMax0(FSub(forecast, std))
      upper == IF IsDict(time_forecast) THEN time_forecast.upper_bound
               ELSE FAdd(forecast, std)
  IN  [forecast |-> Round1(forecast),
       lower_bound |-> Round1(lower),
       upper_bound |-> Round1(upper),
       methods |-> [moving_average |-> Round1(ma_forecast),
                    time_based |-> Round1(time_value),
                    trend |-> Round1(trend)]]

\* one entry of get_summary_statistics; min and max are the counts themselves
SummaryOf(dept) ==
  LET dept_data == Column(historical_data, dept)
      sorted == SortSeq(dept_data, LAMBDA a, b : a < b)
  IN  [mean |-> Mean(dept_data),
       median |-> Percentile(dept_data, 50),
       std |-> Std(dept_data),
       min |-> sorted[1],
       max |-> sorted[Len(sorted)],
       p25 |-> Percentile(dept_data, 25),
       p75 |-> Percentile(dept_data, 75),
       p90 |-> Percentile(dept_data, 90)]

get_summary_statistics ==
  [i \in 1..Len(departments) |-> Entry(departments[i], SummaryOf(departments[i]))]

\* the calls a request makes
RequestCalls ==
  { [op |-> "moving_average_forecast", dept |-> d, current_round |-> r,
     window |-> DefaultWindow] : d \in RequestDepts, r \in RequestRounds }
    \cup { [op |-> "time_based_forecast", dept |-> d, current_round |-> r] :
             d \in RequestDepts, r \in RequestRounds }
    \cup { [op |-> "trend_forecast", dept |-> d, current_round |-> r,
            lookback |-> DefaultLookback] :
             d \in RequestDepts, r \in RequestRounds }
    \cup { [op |-> "ensemble_forecast", dept |-> d, current_round |-> r] :
             d \in RequestDepts, r \in RequestRounds }
    \cup { [op |-> "forecast_all_departments", current_round |-> r] :
             r \in RequestRounds }
    \cup { [op |-> "forecast_next_n_rounds", current_round |-> r, n |-> 2] :
             r \in RequestRounds }
    \cup { [op |-> "detect_surge",
            forecast_data |-> forecast_all_departments(r),
            threshold_percentile |-> DefaultThresholdPercentile] :
             r \in RequestRounds }
    \cup { [op |-> "calculate_capacity_recommendations",
            forecasts |-> forecast_all_departments(r),
            capacity_config |-> CAPACITY_CONFIG] : r \in RequestRounds }
    \cup { [op |-> "get_summary_statistics"] }

\* the number of statements (loop iterations) a call runs before it returns
StatementCount(c) ==
  CASE c.op = "idle" -> 0
    [] c.op = "ensemble_forecast" -> 4
    [] c.op = "forecast_all_departments" -> Len(departments)
    [] c.op = "forecast_next_n_rounds" -> c.n
    [] c.op = "detect_surge" -> Len(c.forecast_data)
    [] c.op = "calculate_capacity_recommendations" -> Len(c.forecasts)
    [] c.op = "get_summary_statistics" -> Len(departments)
    [] OTHER -> 1

\* the local variables of a call that has run no statement yet; out is the
\* value being built, returned after the last statement
NoLocals ==
  [ma_forecast |-> 0, time_forecast |-> Scalar(0), trend_forecast |-> 0,
   out |-> <<>>]

\* the locals after statement number k (from 0) of call c, run with locals l
Statement(c, l, k) ==
  CASE c.op = "moving_average_forecast" ->
         [l EXCEPT !.out = moving_average_forecast(c.dept, c.current_round,
                                                   c.window)]
    [] c.op = "time_based_forecast" ->
         [l EXCEPT !.out = time_based_forecast(c.dept, c.current_round)]
    [] c.op = "trend_forecast" ->
         [l EXCEPT !.out = trend_forecast(c.dept, c.current_round, c.lookback)]
    [] c.op = "ensemble_forecast" ->
         CASE k = 0 ->
                [l EXCEPT !.ma_forecast =
                   moving_average_forecast(c.dept, c.current_round, 3)]
           [] k = 1 ->
                [l EXCEPT !.time_forecast =
                   time_based_forecast(c.dept, c.current_round)]
           [] k = 2 ->
                [l EXCEPT !.trend_forecast =
                   trend_forecast(c.dept, c.current_round, 5)]
           [] OTHER ->
                [l EXCEPT !.out =
                   EnsembleResult(c.dept, l.ma_forecast, l.time_forecast,
                                  l.trend_forecast)]
    [] c.op = "forecast_all_departments" ->
         [l EXCEPT !.out =
            Append(@, Entry(departments[k + 1],
                            ensemble_forecast(departments[k + 1],
                                              c.current_round)))]
    [] c.op = "forecast_next_n_rounds" ->
         [l EXCEPT !.out =
            Append(@, Entry(c.current_round + k,
                            forecast_all_departments(c.current_round + k)))]
    [] c.op = "detect_surge" ->
         [l EXCEPT !.out =
            @ \o SurgeAlerts(c.forecast_data[k + 1].key,
                             c.forecast_data[k + 1].value,
                             c.threshold_percentile)]
    [] c.op = "calculate_capacity_recommendations" ->
         [l EXCEPT !.out =
            @ \o Recommendation(c.forecasts[k + 1].key, c.forecasts[k + 1].value,
                                c.capacity_config)]
    [] c.op = "get_summary_statistics" ->
         [l EXCEPT !.out =
            Append(@, Entry(departments[k + 1], SummaryOf(departments[k + 1])))]

\* no call remembered yet
NothingRemembered == [args |-> [op |-> "idle"], result |-> "None", later |-> FALSE]

\* a request between two calls, remembering what `first` says
IdleRequest(first) ==
  [args |-> [op |-> "idle"], pc |-> 0, locals |-> NoLocals, first |-> first]

InitRequests ==
  /\ historical_data \in Stores
  /\ Len(historical_data) = 2
  /\ departments = DeptList
  /\ forecast_cache = <<>>
  /\ call = [t \in Requests |-> IdleRequest(NothingRemembered)]
  /\ result = [t \in Requests |-> "None"]
  /\ raised = "None"
  /\ DashboardImported

\* the call has run its last statement and holds its return value
Returned(t) ==
  /\ call[t].args.op # "idle"
  /\ call[t].pc = StatementCount(call[t].args)

RequestCall(t) ==
  /\ call[t].args.op = "idle"
  /\ \E c \in RequestCalls :
       call' = [call EXCEPT ![t] = [args |-> c, pc |-> 0, locals |-> NoLocals,
                                    first |-> call[t].first]]
  /\ UNCHANGED <<result, raised, Engine, Dashboard>>

\* moving_average_forecast answering from self.forecast_cache, filled by the
\* call before without regard to its arguments
RequestStep_StaleCache(t) ==
  /\ call[t].args.op # "idle"
  /\ call[t].pc < StatementCount(call[t].args)
  /\ LET computed == Statement(call[t].args, call[t].locals, call[t].pc)
         cached == call[t].args.op = "moving_average_forecast"
         after == IF cached /\ forecast_cache # <<>>
                  THEN [computed EXCEPT !.out = forecast_cache[1]]
                  ELSE computed
     IN  /\ call' = [call EXCEPT ![t].pc = @ + 1, ![t].locals = after]
         /\ result' = IF call[t].pc + 1 = StatementCount(call[t].args)
                       THEN [result EXCEPT ![t] = after.out]
                       ELSE result
         /\ forecast_cache' = IF cached THEN <<computed.out>> ELSE forecast_cache
  /\ UNCHANGED <<raised, historical_data, departments, Dashboard>>

\* ensemble_forecast keeping its three intermediate forecasts in
\* self.forecast_cache instead of local variables
RequestStep_SharedLocals(t) ==
  /\ call[t].args.op # "idle"
  /\ call[t].pc < StatementCount(call[t].args)
  /\ LET shared == call[t].args.op = "ensemble_forecast"
         kept == IF forecast_cache = <<>> THEN NoLocals ELSE forecast_cache[1]
         after == Statement(call[t].args,
                            IF shared THEN kept ELSE call[t].locals, call[t].pc)
     IN  /\ call' = [call EXCEPT ![t].pc = @ + 1, ![t].locals = after]
         /\ result' = IF call[t].pc + 1 = StatementCount(call[t].args)
                       THEN [result EXCEPT ![t] = after.out]
                       ELSE result
         /\ forecast_cache' = IF shared THEN <<[after EXCEPT !.out = <<>>]>>
                               ELSE forecast_cache
  /\ UNCHANGED <<raised, historical_data, departments, Dashboard>>

\* forecast_all_departments storing the map it returns in self.forecast_cache
RequestStep_CachesForecasts(t) ==
  /\ call[t].args.op # "idle"
  /\ call[t].pc < StatementCount(call[t].args)
  /\ LET after == Statement(call[t].args, call[t].locals, call[t].pc)
         last == call[t].pc + 1 = StatementCount(call[t].args)
     IN  /\ call' = [call EXCEPT ![t].pc = @ + 1, ![t].locals = after]
         /\ result' = IF last THEN [result EXCEPT ![t] = after.out] ELSE result
         /\ forecast_cache' =
              IF last /\ call[t].args.op = "forecast_all_departments"
              THEN after.out ELSE forecast_cache
  /\ UNCHANGED <<raised, historical_data, departments, Dashboard>>

RequestStep(t) ==
  /\ call[t].args.op # "idle"
  /\ call[t].pc < StatementCount(call[t].args)
  /\ LET after == Statement(call[t].args, call[t].locals, call[t].pc)
     IN  /\ call' = [call EXCEPT ![t].pc = @ + 1, ![t].locals = after]
         /\ result' = IF call[t].pc + 1 = StatementCount(call[t].args)
                       THEN [result EXCEPT ![t] = after.out]
                       ELSE result
  /\ UNCHANGED <<raised, Engine, Dashboard>>

\* the caller takes the result; a call remembered earlier has now been
\* followed by another one
RequestReturn(t) ==
  /\ Returned(t)
  /\ call' = [call EXCEPT ![t] =
                IdleRequest(IF call[t].first.args.op = "idle"
                            THEN NothingRemembered
                            ELSE [call[t].first EXCEPT !.later = TRUE])]
  /\ result' = [result EXCEPT ![t] = "None"]
  /\ UNCHANGED <<raised, Engine, Dashboard>>

\* the caller takes the result and remembers the call and what it returned
RequestRemember(t) ==
  /\ Returned(t)
  /\ call[t].first.args.op = "idle"
  /\ call' = [call EXCEPT ![t] =
                IdleRequest([args |-> call[t].args, result |-> result[t],
                             later |-> FALSE])]
  /\ result' = [result EXCEPT ![t] = "None"]
  /\ UNCHANGED <<raised, Engine, Dashboard>>

\* one request calling the engine again and again
NextSequential ==
  \/ RequestCall("request_a")
  \/ RequestStep("request_a")
  \/ RequestReturn("request_a")
  \/ RequestRemember("request_a")

SpecSequential == InitRequests /\ [][NextSequential]_vars

\* the requests of a concurrent host, their statements interleaved
NextConcurrent ==
  \E t \in Requests :
    \/ RequestCall(t)
    \/ RequestStep(t)
    \/ RequestReturn(t)

SpecConcurrent == InitRequests /\ [][NextConcurrent]_vars

-----------------------------------------------------------------------------
(* Two engines: a second ERPredictiveAnalytics constructed on a store that  *)
(* keeps one department's column and the round column of the first          *)

\* the store with the column of dept (and session_id, round) kept and every
\* other department's column replaced by the shifted counts of base
OtherColumnsReplaced(dept, base) ==
  [i \in DOMAIN historical_data |->
     [f \in DOMAIN historical_data[i] |->
        IF f \in {"session_id", "round", dept} THEN historical_data[i][f]
        ELSE (base[i] + DeptIndex(f) - 1) % (MaxCount + 1)]]

InitTwoStores == Init /\ Len(historical_data) <= 2

\* __init__ of a second engine, after the first one answered
\* forecast_all_departments; `before` keeps the first engine's store and answer
Reconstruct ==
  /\ call.op = "forecast_all_departments"
  /\ "before" \notin DOMAIN call
  /\ \E dept \in Departments,
        base \in [DOMAIN historical_data -> 0..MaxCount] :
       historical_data' = OtherColumnsReplaced(dept, base)
  /\ departments' = DeptList
  /\ forecast_cache' = <<>>
  /\ call' = [op |-> "__init__",
              before |-> [historical_data |-> historical_data,
                          current_round |-> call.current_round,
                          result |-> result]]
  /\ result' = "None"
  /\ raised' = "None"
  /\ UNCHANGED Dashboard

\* forecast_all_departments of the second engine, for the same round
SecondForecastAllDepartments ==
  /\ call.op = "__init__"
  /\ "before" \in DOMAIN call
  /\ call' = [op |-> "forecast_all_departments",
              current_round |-> call.before.current_round,
              before |-> call.before]
  /\ result' = forecast_all_departments(call.before.current_round)
  /\ raised' = "None"
  /\ UNCHANGED <<Engine, Dashboard>>

NextTwoStores ==
  \/ "before" \notin DOMAIN call /\ ForecastAllDepartments
  \/ Reconstruct
  \/ SecondForecastAllDepartments

SpecTwoStores == InitTwoStores /\ [][NextTwoStores]_vars

-----------------------------------------------------------------------------
(* Properties *)

\* the Forecast Results the call just made returned
EnsembleResults ==
  IF call.op = "ensemble_forecast" THEN {result}
  ELSE IF call.op = "forecast_all_departments"
       THEN { result[i].value : i \in 1..Len(result) }
       ELSE {}

\* the call's store has no record at the round asked for
NoRecordAtRound == Len(RowsAt(call.current_round)) = 0

\* C1: every Forecast Result of ensemble_forecast has lower_bound >= 0,
\* whether the bounds are the time-based ones or forecast minus the
\* full-history standard deviation.
C1_LowerBoundNonNegative ==
  \A f \in EnsembleResults : FGe(f.lower_bound, 0)

\* an ensemble_forecast for a round without records whose forecast lies below
\* the full-history standard deviation: the floor at 0 decides lower_bound
C1_Witness ==
  /\ call.op = "ensemble_forecast"
  /\ NoRecordAtRound
  /\ FGt(Std(Column(historical_data, call.dept)), result.forecast + Scale \div 10)
  /\ result.lower_bound = 0
  /\ FGt(result.forecast, 0)

\* C2: every Forecast Result has forecast >= 0, upper_bound >= lower_bound
\* and three method values >= 0.
C2_ForecastResultInvariant ==
  \A f \in EnsembleResults :
    /\ FGe(f.forecast, 0)
    /\ FGe(f.upper_bound, f.lower_bound)
    /\ FGe(f.methods.moving_average, 0)
    /\ FGe(f.methods.time_based, 0)
    /\ FGe(f.methods.trend, 0)

\* the float fields of what the four forecasting methods return
NumericFields ==
  CASE call.op \in {"moving_average_forecast", "trend_forecast"} -> {result}
    [] call.op = "time_based_forecast" ->
         IF IsDict(result)
         THEN {result.forecast, result.lower_bound, result.upper_bound,
               result.confidence}
         ELSE {result.value}
    [] call.op = "ensemble_forecast" ->
         {result.forecast, result.lower_bound, result.upper_bound,
          result.methods.moving_average, result.methods.time_based,
          result.methods.trend}
    [] OTHER -> {}

\* C3: over a non-empty store the four forecasting methods return without
\* raising and every number they return is defined (not NaN).
C3_TotalAndDefined ==
  /\ raised = "None"
  /\ \A x \in NumericFields : ~IsNaN(x)

\* k = ceil(value / ratio), stated without division
IsCeilOf(k, value, ratio) ==
  /\ k * ratio * Scale >= value
  /\ (k - 1) * ratio * Scale < value

\* the ratio keys a capacity configuration may carry, and the count each one
\* would be reported under
RoleField ==
  [patients_per_nurse |-> "nurses_recommended",
   patients_per_doctor |-> "doctors_recommended",
   patients_per_staff |-> "staff_recommended"]

CapacityCall == call.op = "calculate_capacity_recommendations"

C5_KeysInBoth ==
  CapacityCall =>
    /\ raised = "None"
    /\ KeySet(result) = KeySet(call.forecasts) \cap DOMAIN call.capacity_config
    /\ Len(result) = Cardinality(KeySet(result))

\* a call that skipped one department and kept another
C5_Witness ==
  /\ CapacityCall
  /\ Len(result) > 0
  /\ \E dept \in KeySet(call.forecasts) : dept \notin DOMAIN call.capacity_config

SurgeCall == call.op = "detect_surge"

\* the alerts of the call that name dept
AlertsFor(dept) == { j \in 1..Len(result) : result[j].department = dept }

\* C6: detect_surge returns exactly one alert for each department whose
\* forecast is strictly above its all-history threshold percentile and none
\* for a department whose forecast is equal to or below it.
C6_AlertIffAboveThreshold ==
  SurgeCall =>
    /\ \A i \in 1..Len(call.forecast_data) :
         LET dept == call.forecast_data[i].key
             value == ForecastValue(call.forecast_data[i].value)
             threshold == Percentile(Column(historical_data, dept),
                                     call.threshold_percentile)
         IN  Cardinality(AlertsFor(dept)) = IF value > threshold THEN 1 ELSE 0
    /\ \A j \in 1..Len(result) :
         result[j].department \in KeySet(call.forecast_data)

\* a call with one forecast exactly at its (positive) threshold, without an
\* alert, and another above its threshold, with one
C6_Witness ==
  /\ SurgeCall
  /\ Len(result) > 0
  /\ \E i \in 1..Len(call.forecast_data) :
       LET dept == call.forecast_data[i].key
           value == ForecastValue(call.forecast_data[i].value)
       IN  /\ value > 0
           /\ value = Percentile(Column(historical_data, dept),
                                 call.threshold_percentile)
           /\ AlertsFor(dept) = {}

\* C7: an alert is HIGH exactly when its forecast is strictly above the
\* department's all-history 90th percentile and MODERATE otherwise; with
\* threshold_percentile = 75 a MODERATE alert has its forecast in (p75, p90].
C7_SeverityByP90 ==
  SurgeCall =>
    \A j \in 1..Len(result) :
      LET hist_data == Column(historical_data, result[j].department)
          p90 == Percentile(hist_data, 90)
          p75 == Percentile(hist_data, 75)
      IN  /\ result[j].severity \in {"HIGH", "MODERATE"}
          /\ result[j].severity = "HIGH" <=> result[j].forecast > p90
          /\ (call.threshold_percentile = 75 /\ result[j].severity = "MODERATE")
               => (p75 < result[j].forecast /\ result[j].forecast <= p90)

\* a call with the default percentile that returned a MODERATE alert for a
\* forecast exactly at the 90th percentile
C7_Witness ==
  /\ SurgeCall
  /\ call.threshold_percentile = 75
  /\ \E j \in 1..Len(result) :
       /\ result[j].severity = "MODERATE"
       /\ result[j].forecast
            = Percentile(Column(historical_data, result[j].department), 90)

\* C8 as stated: the alerts follow the order of the engine's department list,
\* whatever the key order of forecast_data.
C8_DepartmentListOrder ==
  SurgeCall =>
    \A j, k \in 1..Len(result) :
      j < k => DeptIndex(result[j].department) < DeptIndex(result[k].department)

\* the position of key k in the dict d
KeyPos(d, k) == CHOOSE i \in 1..Len(d) : d[i].key = k

\* C8 amended: the alerts follow the iteration (insertion) order of the
\* forecast_data passed in; that is the order of the engine's department list
\* when forecast_data has its keys in that order, as a map returned by
\* forecast_all_departments has.
C8_ForecastDataOrder ==
  SurgeCall =>
    /\ \A j, k \in 1..Len(result) :
         j < k => KeyPos(call.forecast_data, result[j].department)
                    < KeyPos(call.forecast_data, result[k].department)
    /\ DictKeys(call.forecast_data) = departments =>
         \A j, k \in 1..Len(result) :
           j < k => DeptIndex(result[j].department)
                      < DeptIndex(result[k].department)

\* a call whose forecast_data lists the departments in reverse and that
\* returned at least two alerts
C8_Witness ==
  /\ SurgeCall
  /\ DictKeys(call.forecast_data) = Reverse(departments)
  /\ Len(result) >= 2

HorizonCall == call.op = "forecast_next_n_rounds"

\* C9: forecast_next_n_rounds(current_round, n) has exactly the keys
\* current_round .. current_round + n - 1, and at each key r the map
\* forecast_all_departments(r) computed from the store alone.
C9_HorizonKeysAndValues ==
  HorizonCall =>
    /\ Len(result) = call.n
    /\ \A i \in 1..Len(result) :
         /\ result[i].key = call.current_round + i - 1
         /\ result[i].value = forecast_all_departments(call.current_round + i - 1)

\* a four-round horizon whose rounds get different forecasts
C9_Witness ==
  /\ HorizonCall
  /\ call.n = 4
  /\ KeySet(result) = call.current_round .. call.current_round + 3
  /\ result[1].value # result[2].value

\* the mean of all the store's counts of dept, summed record by record
FullHistoryMean(dept) ==
  (SumOver(DOMAIN historical_data,
           [i \in DOMAIN historical_data |-> historical_data[i][dept]]) * Scale)
    \div Len(historical_data)

\* C10: moving_average_forecast(dept, current_round, window) with
\* current_round <= 1 is the full-history mean of dept, for every window.
C10_FirstRoundIsHistoryMean ==
  (call.op = "moving_average_forecast" /\ call.current_round <= 1) =>
    result = FullHistoryMean(call.dept)

\* a call at round 1 over a store whose round-1 mean is not its history mean
C10_Witness ==
  /\ call.op = "moving_average_forecast"
  /\ call.current_round = 1
  /\ call.window = 3
  /\ result # Mean(Column(RowsAt(1), call.dept))

\* the store's records whose round lies in [lo, hi)
RecordsIn(lo, hi) ==
  { i \in DOMAIN historical_data :
      historical_data[i].round >= lo /\ historical_data[i].round < hi }

\* the mean of dept over the records I, summed record by record
MeanOver(I, dept) ==
  (SumOver(I, [i \in I |-> historical_data[i][dept]]) * Scale) \div Cardinality(I)

\* C11: for current_round > 1, moving_average_forecast(dept, current_round,
\* window) is the mean of dept over exactly the records, of all sessions, with
\* max(1, current_round - window) <= round < current_round, and the
\* full-history mean when there is no such record; with current_round = 2 and
\* window = 3 it is the cross-session mean of the round-1 observations.
C11_WindowedMean ==
  (call.op = "moving_average_forecast" /\ call.current_round > 1) =>
    LET lo == IF call.current_round - call.window >= 1
              THEN call.current_round - call.window ELSE 1
        I == RecordsIn(lo, call.current_round)
    IN  /\ result = IF I = {} THEN FullHistoryMean(call.dept)
                     ELSE MeanOver(I, call.dept)
        /\ (call.current_round = 2 /\ call.window = 3) =>
              result = MeanOver(RecordsIn(1, 2), call.dept)

\* moving_average_forecast(dept, 2, window=3) over two sessions whose round-1
\* counts differ, and whose mean is not the full-history mean
C11_Witness ==
  /\ call.op = "moving_average_forecast"
  /\ call.current_round = 2
  /\ call.window = 3
  /\ \E i, j \in RecordsIn(1, 2) :
       historical_data[i][call.dept] # historical_data[j][call.dept]
  /\ result # FullHistoryMean(call.dept)

\* C12: time_based_forecast(dept, r) returns the scalar full-history mean
\* exactly when no record has round = r, and otherwise the record {forecast,
\* lower_bound, upper_bound, confidence = 0.68} whose forecast is the mean of
\* dept over the records with round = r.
C12_ShapeByObservations ==
  call.op = "time_based_forecast" =>
    LET I == RecordsIn(call.current_round, call.current_round + 1)
    IN  /\ I = {} <=> ~IsDict(result)
        /\ I = {} => result = Scalar(FullHistoryMean(call.dept))
        /\ I # {} =>
              /\ DOMAIN result
                   = {"forecast", "lower_bound", "upper_bound", "confidence"}
              /\ result.forecast = MeanOver(I, call.dept)
              /\ 100 * result.confidence = 68 * Scale

\* a structured result for a round with exactly one observation, whose
\* forecast is not the full-history mean
C12_Witness ==
  /\ call.op = "time_based_forecast"
  /\ Cardinality(RecordsIn(call.current_round, call.current_round + 1)) = 1
  /\ IsDict(result)
  /\ result.forecast # FullHistoryMean(call.dept)

\* C13: with exactly one observation at round r the band of
\* time_based_forecast(dept, r) is the mean minus (floored at 0) and plus
\* 0.3 * mean, and is not zero-width: upper_bound > lower_bound; with two or
\* more observations the band is the mean minus (floored at 0) and plus the
\* sample standard deviation, and lower_bound <= forecast <= upper_bound.
C13_BandNeverZeroWidth ==
  (call.op = "time_based_forecast" /\ IsDict(result)) =>
    LET round_data == Column(RowsAt(call.current_round), call.dept)
        s == IF Len(round_data) = 1 THEN (3 * result.forecast) \div 10
             ELSE Std(round_data)
    IN  /\ result.lower_bound
             = (IF result.forecast - s > 0 THEN result.forecast - s ELSE 0)
        /\ result.upper_bound = result.forecast + s
        /\ Len(round_data) = 1 => result.upper_bound > result.lower_bound
        /\ Len(round_data) >= 2 =>
              /\ result.lower_bound <= result.forecast
              /\ result.forecast <= result.upper_bound

\* the mean of dept over the records of the rounds [max(1, current_round -
\* window), current_round), the full-history mean when current_round <= 1 or
\* no record lies there
HistoryWindowMean(dept, current_round, window) ==
  LET lo == IF current_round - window >= 1 THEN current_round - window ELSE 1
      I == RecordsIn(lo, current_round)
  IN  IF current_round <= 1 \/ I = {} THEN FullHistoryMean(dept)
      ELSE MeanOver(I, dept)

\* the least-squares line through the points (r, mean of dept at round r),
\* r in rounds, evaluated at the round at: mean of y plus the slope
\* sum((x - mean x)(y - mean y)) / sum((x - mean x)^2) times (at - mean x),
\* all sums taken n-fold to stay in integers
LeastSquaresAt(rounds, dept, at) ==
  LET n == Cardinality(rounds)
      y == [r \in rounds |-> MeanOver(RecordsIn(r, r + 1), dept)]
      sx == SumOver(rounds, [r \in rounds |-> r])
      sy == SumOver(rounds, y)
      num == SumOver(rounds, [r \in rounds |-> (n * r - sx) * (n * y[r] - sy)])
      den == SumOver(rounds, [r \in rounds |-> (n * r - sx) * (n * r - sx)])
  IN  (sy * den + num * (n * at - sx)) \div (n * den)

\* the distinct rounds with records in [max(1, current_round - lookback),
\* current_round)
LookbackRounds(current_round, lookback) ==
  LET lo == IF current_round - lookback >= 1 THEN current_round - lookback ELSE 1
  IN  { historical_data[i].round : i \in RecordsIn(lo, current_round) }

\* C14: trend_forecast(dept, current_round, lookback) is
\* moving_average_forecast(dept, current_round) (window 3) when
\* current_round <= 2 or fewer than 2 distinct rounds have records in
\* [max(1, current_round - lookback), current_round); otherwise it is the
\* least-squares line through the per-round means of those rounds evaluated
\* at current_round, floored at 0; it is never negative.
C14_TrendOrFallback ==
  call.op = "trend_forecast" =>
    LET rounds == LookbackRounds(call.current_round, call.lookback)
        line == LeastSquaresAt(rounds, call.dept, call.current_round)
    IN  /\ result = IF call.current_round <= 2 \/ Cardinality(rounds) < 2
                     THEN HistoryWindowMean(call.dept, call.current_round, 3)
                     ELSE IF line > 0 THEN line ELSE 0
        /\ result >= 0

\* a regression over falling round means whose line is below 0 at
\* current_round, returned as 0
C14_Witness ==
  /\ call.op = "trend_forecast"
  /\ call.current_round > 2
  /\ Cardinality(LookbackRounds(call.current_round, call.lookback)) >= 2
  /\ LeastSquaresAt(LookbackRounds(call.current_round, call.lookback),
                    call.dept, call.current_round) < 0
  /\ result = 0

\* the three unrounded method values of an ensemble forecast, from the store
\* alone: the mean at the round (the full-history mean without observation),
\* the window-3 mean, the lookback-5 trend
MethodValues(dept, current_round) ==
  LET I == RecordsIn(current_round, current_round + 1)
      rounds == LookbackRounds(current_round, 5)
      line == LeastSquaresAt(rounds, dept, current_round)
  IN  [time_based |-> IF I = {} THEN FullHistoryMean(dept) ELSE MeanOver(I, dept),
       moving_average |-> HistoryWindowMean(dept, current_round, 3),
       trend |-> IF current_round <= 2 \/ Cardinality(rounds) < 2
                 THEN HistoryWindowMean(dept, current_round, 3)
                 ELSE IF line > 0 THEN line ELSE 0]

\* 0.4 * time_based + 0.3 * moving_average + 0.3 * trend
Weighted(m) ==
  (4 * m.time_based) \div 10 + (3 * m.moving_average) \div 10
    + (3 * m.trend) \div 10

EnsembleCall == call.op = "ensemble_forecast"

\* C15: the point forecast of ensemble_forecast is 0.4 * time_based + 0.3 *
\* moving_average(window 3) + 0.3 * trend(lookback 5) of the unrounded method
\* values, rounded to one decimal in the output only; 'methods' reports the
\* three values rounded to one decimal.
C15_WeightedUnrounded ==
  EnsembleCall =>
    LET m == MethodValues(call.dept, call.current_round)
    IN  /\ result.forecast = Round1(Weighted(m))
        /\ result.methods = [moving_average |-> Round1(m.moving_average),
                             time_based |-> Round1(m.time_based),
                             trend |-> Round1(m.trend)]

\* an ensemble forecast that differs from the weighted sum of its own rounded
\* 'methods' values
C15_Witness ==
  /\ EnsembleCall
  /\ result.forecast # Round1(Weighted(result.methods))

\* C16: when the round has observations the ensemble's bounds are the
\* time-based band (mean minus, floored at 0, and plus the band's deviation),
\* rounded to one decimal; without observation they are max(0, forecast - s)
\* and forecast + s, rounded to one decimal, s the full-history standard
\* deviation and forecast the unrounded weighted estimate.
C16_BoundsByShape ==
  EnsembleCall =>
    LET round_data == Column(RowsAt(call.current_round), call.dept)
        m == MethodValues(call.dept, call.current_round)
        band == IF Len(round_data) = 1 THEN (3 * m.time_based) \div 10
                ELSE Std(round_data)
        s == Std(Column(historical_data, call.dept))
    IN  IF Len(round_data) > 0
        THEN /\ result.lower_bound
                  = Round1(IF m.time_based - band > 0 THEN m.time_based - band
                           ELSE 0)
             /\ result.upper_bound = Round1(m.time_based + band)
        ELSE /\ result.lower_bound = Round1(PyMax0(FSub(Weighted(m), s)))
             /\ result.upper_bound = Round1(FAdd(Weighted(m), s))

\* a forecast for a round without observation whose upper bound differs from
\* the rounded forecast plus the full-history standard deviation
C16_Witness ==
  /\ EnsembleCall
  /\ NoRecordAtRound
  /\ ~IsNaN(result.upper_bound)
  /\ result.upper_bound
       # Round1(result.forecast + Std(Column(historical_data, call.dept)))

\* C17: for a round without observation the forecast of ensemble_forecast
\* lies within its bounds, lower_bound <= forecast <= upper_bound (for a round
\* with observations, where the time-based band is reused, it need not).
C17_ScalarBranchWithinBounds ==
  (EnsembleCall /\ NoRecordAtRound) =>
    /\ FGe(result.forecast, result.lower_bound)
    /\ FGe(result.upper_bound, result.forecast)

\* the case C17 allows: a round with observations whose forecast lies outside
\* the reused time-based band
C17_OutsideReusedBand ==
  /\ EnsembleCall
  /\ ~NoRecordAtRound
  /\ \/ result.forecast < result.lower_bound
     \/ result.forecast > result.upper_bound

\* what the call c returns when it runs alone, from the first statement to the
\* last without another request in between
ResultAlone(c) ==
  CASE c.op = "moving_average_forecast" ->
         moving_average_forecast(c.dept, c.current_round, c.window)
    [] c.op = "time_based_forecast" -> time_based_forecast(c.dept, c.current_round)
    [] c.op = "trend_forecast" -> trend_forecast(c.dept, c.current_round, c.lookback)
    [] c.op = "ensemble_forecast" -> ensemble_forecast(c.dept, c.current_round)
    [] c.op = "forecast_all_departments" -> forecast_all_departments(c.current_round)
    [] c.op = "forecast_next_n_rounds" ->
         forecast_next_n_rounds(c.current_round, c.n)
    [] c.op = "detect_surge" -> detect_surge(c.forecast_data, c.threshold_percentile)
    [] c.op = "calculate_capacity_recommendations" ->
         calculate_capacity_recommendations(c.forecasts, c.capacity_config)
    [] c.op = "get_summary_statistics" -> get_summary_statistics

\* the request has just repeated, with identical arguments, the call it
\* remembers
RepeatsRemembered(t) ==
  /\ Returned(t)
  /\ call[t].first.args.op = call[t].args.op
  /\ call[t].first.args = call[t].args

\* C18: a method called again with identical arguments on the unmodified
\* store returns what it returned the first time, whatever calls were made
\* before the first call and between the two.
C18_SameCallSameResult ==
  \A t \in Requests :
    RepeatsRemembered(t) => result[t] = call[t].first.result

\* forecast_next_n_rounds repeated after another call was made and returned
\* in between
C18_Witness ==
  /\ RepeatsRemembered("request_a")
  /\ call["request_a"].args.op = "forecast_next_n_rounds"
  /\ call["request_a"].first.later
  /\ Len(result["request_a"]) = 2

\* C19: whatever the interleaving of the requests' statements, every call
\* returns what it returns when run alone, and ensemble_forecast's
\* intermediate forecasts are at every statement those of the call's own
\* arguments.
C19_InterleavingInvisible ==
  \A t \in Requests :
    LET c == call[t].args
        l == call[t].locals
    IN  /\ Returned(t) => result[t] = ResultAlone(c)
        /\ c.op = "ensemble_forecast" =>
              /\ call[t].pc >= 1 =>
                    l.ma_forecast
                      = moving_average_forecast(c.dept, c.current_round, 3)
              /\ call[t].pc >= 2 =>
                    l.time_forecast = time_based_forecast(c.dept, c.current_round)
              /\ call[t].pc >= 3 =>
                    l.trend_forecast = trend_forecast(c.dept, c.current_round, 5)

\* two requests both in the middle of ensemble_forecast, for different
\* departments and rounds, holding different intermediate forecasts
C19_Witness ==
  LET a == call["request_a"]
      b == call["request_b"]
  IN  /\ a.args.op = "ensemble_forecast"
      /\ b.args.op = "ensemble_forecast"
      /\ a.pc = 3
      /\ b.pc = 2
      /\ a.args.dept # b.args.dept
      /\ a.args.current_round # b.args.current_round
      /\ a.locals.ma_forecast # b.locals.ma_forecast

\* C20: no step of any method changes the store's records, the department
\* list or forecast_cache, which stays empty.
C20_EngineNeverWritten ==
  [][/\ historical_data' = historical_data
     /\ departments' = departments
     /\ forecast_cache = <<>>
     /\ forecast_cache' = <<>>]_vars

\* get_summary_statistics and calculate_capacity_recommendations both
\* returned, the engine as __init__ left it
C20_Witness ==
  /\ Returned("request_a")
  /\ Returned("request_b")
  /\ call["request_a"].args.op = "get_summary_statistics"
  /\ call["request_b"].args.op = "calculate_capacity_recommendations"
  /\ Len(result["request_a"]) = Len(DeptList)
  /\ Len(result["request_b"]) = Len(DeptList)
  /\ historical_data \in Stores
  /\ departments = DeptList
  /\ forecast_cache = <<>>

\* the two stores have the same records' session_id and round, and the same
\* counts of dept
AgreeOn(store1, store2, dept) ==
  /\ Len(store1) = Len(store2)
  /\ \A i \in 1..Len(store1) :
       /\ store1[i].session_id = store2[i].session_id
       /\ store1[i].round = store2[i].round
       /\ store1[i][dept] = store2[i][dept]

\* C21: forecast_all_departments(current_round) has exactly the department
\* list's keys in its order, each value being ensemble_forecast(dept,
\* current_round); and two stores that agree on the round column and on a
\* department's column give that department the same Forecast Result,
\* whatever the other departments' counts.
C21_KeysAndIndependence ==
  call.op = "forecast_all_departments" =>
    /\ DictKeys(result) = DeptList
    /\ \A i \in 1..Len(result) :
         result[i].value = ensemble_forecast(DeptList[i], call.current_round)
    /\ "before" \in DOMAIN call =>
         \A dept \in Departments :
           AgreeOn(call.before.historical_data, historical_data, dept) =>
             DictGet(result, dept) = DictGet(call.before.result, dept)

\* a second engine whose store keeps emergency_walkin's column and changes
\* others: the same forecast for emergency_walkin, another for surgery
C21_Witness ==
  /\ call.op = "forecast_all_departments"
  /\ "before" \in DOMAIN call
  /\ AgreeOn(call.before.historical_data, historical_data, "emergency_walkin")
  /\ ~AgreeOn(call.before.historical_data, historical_data, "surgery")
  /\ DictGet(result, "emergency_walkin")
       = DictGet(call.before.result, "emergency_walkin")
  /\ DictGet(result, "surgery") # DictGet(call.before.result, "surgery")

-----------------------------------------------------------------------------
(* Rounds beyond the observed history *)

\* the last round the store has a record of
LastRound ==
  CHOOSE r \in { historical_data[i].round : i \in DOMAIN historical_data } :
    \A i \in DOMAIN historical_data : historical_data[i].round <= r

\* the four forecasting methods called, with their default window and
\* lookback, for the rounds after the store's last one
BeyondCalls ==
  LET rounds == (LastRound + 1)..(LastRound + DefaultLookback + MaxBeyond)
  IN  { [op |-> "moving_average_forecast", dept |-> d, current_round |-> r,
         window |-> DefaultWindow] : d \in Departments, r \in rounds }
        \cup { [op |-> "time_based_forecast", dept |-> d, current_round |-> r] :
                 d \in Departments, r \in rounds }
        \cup { [op |-> "trend_forecast", dept |-> d, current_round |-> r,
                lookback |-> DefaultLookback] : d \in Departments, r \in rounds }
        \cup { [op |-> "ensemble_forecast", dept |-> d, current_round |-> r] :
                 d \in Departments, r \in rounds }

ForecastBeyondHistory ==
  /\ Idle
  /\ \E c \in BeyondCalls :
       /\ call' = c
       /\ result' = ResultAlone(c)
  /\ raised' = "None"
  /\ UNCHANGED <<Engine, Dashboard>>

InitBeyond == Init /\ Len(historical_data) <= 3

NextBeyond ==
  \/ ForecastBeyondHistory
  \/ Return

SpecBeyond == InitBeyond /\ [][NextBeyond]_vars

\* the call asks for a round more than the trend lookback past the last
\* observed round
FarBeyond ==
  /\ call.op \in {"moving_average_forecast", "time_based_forecast",
                   "trend_forecast", "ensemble_forecast"}
  /\ call.current_round > LastRound + 5

-----------------------------------------------------------------------------
(* The dashboard's main callback *)

\* the last round of a session
LastGameRound == 23

Min2(a, b) == IF a <= b THEN a ELSE b

Buttons == {"update-round-btn", "simulate-btn", "reset-resources-btn"}

\* next((k for k, v in DEPT_NAMES.items() if v == dept_name), None)
DeptKey(dept_name) ==
  LET keys == SelectSeq(DeptList, LAMBDA k : DEPT_NAMES[k] = dept_name)
  IN  IF Len(keys) = 0 THEN "None" ELSE keys[1]

\* for row in resource_data: the staff count and the bed count of the row's
\* department are overwritten with the row's
RECURSIVE TableLoop(_, _, _, _)
TableLoop(resource_data, i, staff_allocation, config) ==
  IF i > Len(resource_data)
  THEN [staff_allocation |-> staff_allocation, config |-> config]
  ELSE LET row == resource_data[i]
           dept_key == DeptKey(row.department)
       IN  IF dept_key = "None"
           THEN TableLoop(resource_data, i + 1, staff_allocation, config)
           ELSE TableLoop(resource_data, i + 1,
                  [staff_allocation EXCEPT ![dept_key].staff =
                     IF "staff" \in DOMAIN row THEN row.staff ELSE 3],
                  [config EXCEPT ![dept_key].beds =
                     IF "total_beds" \in DOMAIN row THEN row.total_beds
                     ELSE config[dept_key].beds])

\* the resource table's rows, one per department in DEPT_NAMES' order; of
\* the utilization label the level is kept, the percentage text is not
resource_table_data(state, config) ==
  [i \in 1..Len(DeptList) |->
     LET dept == DeptList[i]
         staff_count == state.staff_allocation[dept].staff
         patients == state.current_patients[dept]
         total_beds == config[dept].beds
         occupied == Min2(patients, total_beds)
         available == Max2(0, total_beds - occupied)
     IN  [department |-> DEPT_NAMES[dept],
          current_patients |-> patients,
          staff |-> staff_count,
          total_beds |-> total_beds,
          occupied_beds |-> occupied,
          available_beds |-> available,
          utilization |->
            IF total_beds > 0 /\ occupied * 100 >= 80 * total_beds THEN "HIGH"
            ELSE IF total_beds > 0 /\ occupied * 100 >= 60 * total_beds
                 THEN "MODERATE"
                 ELSE "NORMAL"]]

\* update_dashboard up to its return: the two module globals as it leaves
\* them, the round it reports and the resource table it returns. The
\* forecasts, alerts and figures it also returns are computed from the engine
\* and write nothing.
update_dashboard(button_id, simulate_clicks, current_round, resource_data, new_arrivals) ==
  LET reset == button_id = "reset-resources-btn"
      after_reset == IF reset THEN DefaultStaffAllocation
                     ELSE simulation_state.staff_allocation
      from_table ==
        IF Len(resource_data) > 0 /\ ~reset
        THEN TableLoop(resource_data, 1, after_reset, CAPACITY_CONFIG_current)
        ELSE [staff_allocation |-> after_reset,
              config |-> CAPACITY_CONFIG_current]
      simulates == button_id = "simulate-btn" /\ simulate_clicks > 0
      round == IF simulates THEN Min2(LastGameRound, current_round + 1)
               ELSE current_round
      patients ==
        IF simulates
        THEN [dept \in Departments |->
                simulation_state.current_patients[dept] + new_arrivals[dept]]
        ELSE simulation_state.current_patients
      state == [simulation_state EXCEPT
                  !.staff_allocation = from_table.staff_allocation,
                  !.current_patients = patients,
                  !.current_round = round]
  IN  [simulation_state |-> state,
       CAPACITY_CONFIG |-> from_table.config,
       simulates |-> simulates,
       outputs |-> [round_info |-> round,
                    resource_table_data |->
                      resource_table_data(state, from_table.config)]]

\* the values the user types into the round input
InputRounds == {1, 2, LastGameRound - 1, LastGameRound}

\* generate_real_time_data / generate_mock_arrivals: one random non-negative
\* count per department
ArrivalBatches == { [dept \in Departments |-> n] : n \in 0..MaxArrival }

InitDashboard ==
  /\ Init
  /\ Len(historical_data) = 1
  /\ \A dept \in Departments : historical_data[1][dept] = DeptIndex(dept) % (MaxCount + 1)

\* the page is loaded: the callback has run at least once
Loaded == call.op = "update_dashboard"

\* a click on one of the three buttons (the page load counts as the update
\* button's) and the callback it triggers; the table the callback returns
\* becomes the resource table's data
UpdateDashboard ==
  \E button_id \in Buttons, new_arrivals \in ArrivalBatches :
    /\ ~Loaded => button_id = "update-round-btn"
    /\ button_id = "simulate-btn" => layout.simulate_btn < MaxSimulate
    /\ LET simulate_clicks == IF button_id = "simulate-btn"
                              THEN layout.simulate_btn + 1
                              ELSE layout.simulate_btn
           done == update_dashboard(button_id, simulate_clicks,
                                    layout.current_round_input,
                                    layout.resource_table, new_arrivals)
       IN  /\ simulation_state' = done.simulation_state
           /\ CAPACITY_CONFIG_current' = done.CAPACITY_CONFIG
           /\ layout' = [layout EXCEPT
                           !.simulate_btn = simulate_clicks,
                           !.resource_table = done.outputs.resource_table_data]
           /\ call' = [op |-> "update_dashboard", button_id |-> button_id,
                       simulate_clicks |-> simulate_clicks,
                       current_round |-> layout.current_round_input,
                       resource_data |-> layout.resource_table]
           /\ result' = done.outputs
           /\ observed' =
                IF button_id = "simulate-btn"
                THEN [observed EXCEPT
                        !.k = @ + 1,
                        !.r = IF observed.k = 0 THEN layout.current_round_input
                              ELSE @,
                        !.batches = IF done.simulates THEN @ + 1 ELSE @,
                        !.before = simulation_state.current_patients]
                ELSE [observed EXCEPT
                        !.k = 0, !.r = 0, !.batches = 0,
                        !.before = simulation_state.current_patients]
    /\ raised' = "None"
    /\ UNCHANGED Engine

\* the user types another round into the round input; no callback runs
EditRound ==
  /\ Loaded
  /\ \E value \in InputRounds \ {layout.current_round_input} :
       layout' = [layout EXCEPT !.current_round_input = value]
  /\ observed' = [observed EXCEPT !.k = 0, !.r = 0, !.batches = 0]
  /\ UNCHANGED <<Engine, call, result, raised, simulation_state,
                 CAPACITY_CONFIG_current>>

\* the user edits a 'staff' or a 'total_beds' cell of the resource table; no
\* callback runs
EditTable ==
  /\ Loaded
  /\ observed.edits < MaxEdits
  /\ \E i \in 1..Len(layout.resource_table), value \in 1..MaxEdit :
       \/ layout' = [layout EXCEPT !.resource_table[i].staff = value]
       \/ layout' = [layout EXCEPT !.resource_table[i].total_beds = value]
  /\ observed' = [observed EXCEPT !.edits = @ + 1]
  /\ UNCHANGED <<Engine, call, result, raised, simulation_state,
                 CAPACITY_CONFIG_current>>

NextDashboard ==
  \/ UpdateDashboard
  \/ EditRound
  \/ EditTable

SpecDashboard == InitDashboard /\ [][NextDashboard]_vars

\* C23: after k consecutive simulate callbacks starting from input round r,
\* simulation_state['current_round'] is min(23, r + k), and one batch of
\* arrivals has been added per round actually advanced, none once round 23
\* is reached.
C23_RoundAdvancesPerClick ==
  observed.k > 0 =>
    /\ simulation_state.current_round = Min2(23, observed.r + observed.k)
    /\ observed.batches = Min2(23, observed.r + observed.k) - observed.r

\* C24: the table a 'Reset to Defaults' callback returns shows the default
\* staff count and the default bed count of every department whatever table
\* was submitted, and the callback leaves current_patients alone and takes
\* current_round from the round input.
C24_ResetRestoresDefaults ==
  (Loaded /\ call.button_id = "reset-resources-btn") =>
    /\ \A i \in 1..Len(DeptList) :
         /\ result.resource_table_data[i].department = DEPT_NAMES[DeptList[i]]
         /\ result.resource_table_data[i].staff =
              DefaultStaffAllocation[DeptList[i]].staff
         /\ result.resource_table_data[i].total_beds =
              CAPACITY_CONFIG[DeptList[i]].beds
    /\ simulation_state.current_patients = observed.before
    /\ simulation_state.current_round = call.current_round

====
